---- MODULE Spec2Model ----
(***************************************************************************)
(* Model of app.py: the Flask submission portal.  A team logs in (verify), *)
(* posts an archive (upload), a daemon thread relays every extracted file  *)
(* to the GitHub contents API (process_upload / github_upload) and pushes  *)
(* progress events on a queue.Queue that /events/<upload_id> drains as a   *)
(* server-sent event stream.  An administrator can reset a team's lock.    *)
(*                                                                         *)
(* Request handlers run on the threaded development server, so a handler   *)
(* is a sequence of steps that interleaves with the other handlers and     *)
(* with the worker threads.                                                *)
(*                                                                         *)
(* Environment: a browser session has one request in flight at a time; the *)
(* administrator logs in from a browser of its own; the PIN check, the    *)
(* archive, the answers of the contents API and the result of rmtree are   *)
(* inputs.  emitted, taken, launched and the fields lockSet, extract and   *)
(* rm of sub are history kept for the properties; the code holds no such   *)
(* state.                                                                  *)
(*                                                                         *)
(* Spec is the portal: its worker draws the statuses of the contents API   *)
(* as inputs.  UpsertSpec is github_upload on its own, called one call     *)
(* after the other on a repository (gh) that answers the read and the      *)
(* write, may fail to, and may be written to by others.                    *)
(***************************************************************************)
EXTENDS Integers, Sequences, FiniteSets, TLC

\* ------------------------------------------------------------------ bounds
\* files staged in one run, over all uploads
MaxFiles == 2
\* upload ids generated in one run
MaxUploads == 2
\* browser sessions of team members
NumSessions == 2
\* stream connections opened in one run
NumConns == 2
\* requests the clients issue in one run: an upload POST counts for two (the
\* POST and the status page it redirects to), a stream connection for one
MaxLoad == 4
\* github_upload calls made in sequence on the repository
MaxCalls == 2
\* writes to the repository by others than the portal
MaxExternal == 1

\* ------------------------------------------------------------- universes
Teams == {"teamX"}
\* the administrator account disguised as a team
AdminTeam == "VEGAVATH ADS"
\* browsers of team members, and the administrator's browser
TeamSessions == 1..NumSessions
AdminSession == 0
Sessions == TeamSessions \cup {AdminSession}
Conns == 1..NumConns
\* upload ids handed out by uuid.uuid4(): fresh on every POST
Ids == 1..MaxUploads
\* an id no intake ever hands out, for requests with a made-up id
UnknownId == 0
ReqIds == Ids \cup {UnknownId}
NoTeam == "none"

\* HTTP statuses the contents API answers with: the read finds the path or
\* not, the write creates the object or is refused
GetStatuses == {200, 404}
PutStatuses == {201, 409}

VARIABLES
    session,        \* per browser session: the Flask session cookie
    upload_state,   \* team -> has submitted (missing key = falsy = FALSE)
    state_file,     \* contents of uploads_state.json
    req,            \* per session: the POST /upload request in flight
    nextId,         \* number of upload ids generated so far
    sub,            \* per upload id: team, staged files, temp_dir on disk
    upload_queues,  \* upload id -> queue.Queue contents (registry)
    upload_meta,    \* upload id -> progress counters
    wpc,            \* per upload id: position of the process_upload thread
    wi,             \* per upload id: loop variable i of process_upload
    emitted,        \* per upload id: events the worker has put, in order
    taken,          \* per upload id: events dequeued so far, with the taker
    conn,           \* per stream connection: state of GET /events/<id>
    launched,       \* per team: worker threads started since the last reset
    gh              \* the repository behind the contents API and the
                    \* github_upload calls made on it in sequence

vars == <<session, upload_state, state_file, req, nextId, sub, upload_queues,
          upload_meta, wpc, wi, emitted, taken, conn, launched, gh>>

\* the state of the portal itself
webvars == <<session, upload_state, state_file, req, nextId, sub,
             upload_queues, upload_meta, wpc, wi, emitted, taken, conn,
             launched>>

\* ------------------------------------------------------------ helpers
Last(s) == s[Len(s)]

RECURSIVE SelectEv(_, _)
SelectEv(s, c) ==
    IF s = <<>> THEN <<>>
    ELSE IF s[1].conn = c THEN <<s[1].ev>> \o SelectEv(Tail(s), c)
         ELSE SelectEv(Tail(s), c)

EvSeq(s) == [k \in 1..Len(s) |-> s[k].ev]

\* the kinds of the events of a sequence
Kinds(e) == {e[k][1] : k \in 1..Len(e)}

\* ------------------------------------------------------------ json_event
json_event(event, data) == <<event, data>>

\* temp_dir = f"temp_{team}_{upload_id}"
temp_dir(team, id) == <<"temp", team, id>>

\* all_files of os.walk(temp_dir): the staged files in walk order
all_files(id) == [k \in 1..sub[id].nfiles |-> <<temp_dir(sub[id].team, id), k>>]

safe_relpath(path, start) == path[2]

gh_path_of(team, rel) == <<"submissions", team, rel>>

\* ------------------------------------------------------------ github_upload
\* One read, one write; the write carries the sha iff the read answered 200.
\* Returns (ok, status, text) of the write.
github_upload(get_status, put_status) ==
    [ok |-> put_status \in {200, 201},
     status |-> put_status,
     resp |-> <<"body", put_status>>,
     sha_sent |-> (get_status = 200)]

\* ------------------------------------------------------------ contents API
\* sha = None (line 51): the read found no object
NoSha == 0
\* file contents handed to github_upload
Contents == {"v1", "v2"}
\* the paths process_upload writes to
RemotePaths == {gh_path_of(t, k) : t \in Teams, k \in 1..MaxFiles}
NoObject == [sha |-> NoSha, content |-> "none"]

\* GET /contents/<path>: 200 with the sha of the object, 404 without one
RemoteGet(store, path) ==
    IF store[path].sha # NoSha
    THEN [status |-> 200, sha |-> store[path].sha]
    ELSE [status |-> 404, sha |-> NoSha]

\* PUT /contents/<path>: creates an absent object when no sha is given,
\* updates an object when its current sha is given, refuses anything else
RemotePut(store, path, sha) ==
    IF store[path].sha = NoSha
    THEN IF sha = NoSha THEN 201 ELSE 422
    ELSE IF sha = store[path].sha THEN 200
         ELSE IF sha = NoSha THEN 422 ELSE 409

\* variant of payload_sha: the write never carries a sha
payload_sha_None(get_status, sha) == NoSha

\* lines 51-54: the sha of a 200 read goes into the payload, if it is truthy
payload_sha(get_status, sha) ==
    IF get_status = 200 /\ sha # NoSha THEN sha ELSE NoSha

NoCall == [path |-> <<>>, content |-> "none", get_status |-> 0, sha |-> NoSha,
           reads |-> 0, writes |-> 0, ext0 |-> 0, before |-> NoSha]

\* no call in progress on a repository with the given objects, to which
\* rev shas have been given so far
GhIdle(store, rev) ==
    [store |-> store, rev |-> rev, extlog |-> <<>>, pc |-> "idle",
     call |-> NoCall, log |-> <<>>]

\* ------------------------------------------------------------------ Init
NoReq == [pc |-> "none", id |-> UnknownId, team |-> NoTeam]

Init ==
    /\ session = [s \in Sessions |-> [team |-> NoTeam, admin |-> FALSE]]
    /\ upload_state \in [Teams -> BOOLEAN]
    /\ state_file = upload_state
    /\ req = [s \in Sessions |-> NoReq]
    /\ nextId = 0
    /\ sub = [i \in Ids |-> [team |-> NoTeam, nfiles |-> 0, dir |-> FALSE,
                             extract |-> "none", lockSet |-> FALSE, rm |-> "none"]]
    /\ upload_queues = <<>>
    /\ upload_meta = <<>>
    /\ wpc = [i \in Ids |-> "idle"]
    /\ wi = [i \in Ids |-> 0]
    /\ emitted = [i \in Ids |-> <<>>]
    /\ taken = [i \in Ids |-> <<>>]
    /\ conn = [c \in Conns |-> [state |-> "idle", id |-> UnknownId]]
    /\ launched = [t \in Teams |-> 0]
    /\ gh = GhIdle([p \in RemotePaths |-> NoObject], 0)

\* ------------------------------------------------------------ client load
RECURSIVE SumFiles(_)
SumFiles(k) == IF k = 0 THEN 0 ELSE sub[k].nfiles + SumFiles(k - 1)

\* requests issued so far that start an upload or open a stream
Load == nextId + nextId + Cardinality({c \in Conns : conn[c].state # "idle"})

\* ------------------------------------------------------------ verify
\* POST /: a correct PIN logs the session in, unless the team is locked.
\* pin_ok is the outcome of bcrypt.checkpw against teams.json.
Verify(s, team, pin_ok) ==
    /\ req[s].pc = "none"
    /\ IF pin_ok
       THEN IF team = AdminTeam
            THEN session' = [session EXCEPT ![s].admin = TRUE]
            ELSE IF upload_state[team]
                 THEN UNCHANGED session
                 ELSE session' = [session EXCEPT ![s].team = team]
       ELSE UNCHANGED session
    /\ UNCHANGED <<upload_state, state_file, req, nextId, sub, upload_queues,
                   upload_meta, wpc, wi, emitted, taken, conn, launched, gh>>

\* ------------------------------------------------------------ upload
\* POST /upload, lines 144-160: new id, temp_dir created, archive saved and
\* extracted.  A corrupt archive raises out of the handler at line 158.
UploadExtract(s, n, corrupt) ==
    /\ session[s].team # NoTeam
    /\ req[s].pc = "none"
    /\ nextId < MaxUploads
    /\ Load + 1 < MaxLoad
    /\ SumFiles(MaxUploads) + n <= MaxFiles
    /\ LET id == nextId + 1
           team == session[s].team
       IN /\ nextId' = id
          /\ IF corrupt
             THEN /\ sub' = [sub EXCEPT ![id].team = team, ![id].dir = TRUE,
                                        ![id].extract = "failed"]
                  /\ UNCHANGED req
             ELSE /\ sub' = [sub EXCEPT ![id].team = team, ![id].dir = TRUE,
                                        ![id].nfiles = n, ![id].extract = "ok"]
                  /\ req' = [req EXCEPT ![s] = [pc |-> "lock", id |-> id,
                                                team |-> team]]
    /\ UNCHANGED <<session, upload_state, state_file, upload_queues,
                   upload_meta, wpc, wi, emitted, taken, conn, launched, gh>>

\* variant of UploadLock: the handler goes on to start the thread without
\* having set the lock
UploadLock_Skip(s) ==
    /\ req[s].pc = "lock"
    /\ req' = [req EXCEPT ![s].pc = "launch"]
    /\ UNCHANGED <<session, upload_state, state_file, nextId, sub,
                   upload_queues, upload_meta, wpc, wi, emitted, taken, conn,
                   launched, gh>>

\* lines 162-163: upload_state[team] = True; save_upload_state()
UploadLock(s) ==
    /\ req[s].pc = "lock"
    /\ upload_state' = [upload_state EXCEPT ![req[s].team] = TRUE]
    /\ state_file' = upload_state'
    /\ sub' = [sub EXCEPT ![req[s].id].lockSet =
                  upload_state'[req[s].team] /\ state_file'[req[s].team]]
    /\ req' = [req EXCEPT ![s].pc = "launch"]
    /\ UNCHANGED <<session, nextId, upload_queues, upload_meta, wpc, wi,
                   emitted, taken, conn, launched, gh>>

\* lines 165-170: the queue is created and registered, the thread started,
\* the session cleared and the client redirected
UploadLaunch(s) ==
    /\ req[s].pc = "launch"
    /\ upload_queues' = (req[s].id :> <<>>) @@ upload_queues
    /\ wpc' = [wpc EXCEPT ![req[s].id] = "start"]
    /\ launched' = [launched EXCEPT ![req[s].team] = @ + 1]
    /\ session' = [session EXCEPT ![s] = [team |-> NoTeam, admin |-> FALSE]]
    /\ req' = [req EXCEPT ![s] = NoReq]
    /\ UNCHANGED <<upload_state, state_file, nextId, sub, upload_meta, wi,
                   emitted, taken, conn, gh>>

\* ------------------------------------------------------------ reset_team
\* POST /admin/reset/<team> from an admin session
ResetTeam(s, team) ==
    /\ req[s].pc = "none"
    /\ session[s].admin
    /\ upload_state' = [upload_state EXCEPT ![team] = FALSE]
    /\ state_file' = upload_state'
    /\ launched' = [launched EXCEPT ![team] = 0]
    /\ UNCHANGED <<session, req, nextId, sub, upload_queues, upload_meta,
                   wpc, wi, emitted, taken, conn, gh>>

\* ------------------------------------------------------------ process_upload
\* q.put(ev) on the unbounded queue of upload id: never blocks
put(id, ev) ==
    /\ upload_queues' = [upload_queues EXCEPT ![id] = Append(@, ev)]
    /\ emitted' = [emitted EXCEPT ![id] = Append(@, ev)]

\* lines 75-88: look the queue up, walk temp_dir, record the counters, info
WorkerStart(id) ==
    /\ wpc[id] = "start"
    /\ IF id \notin DOMAIN upload_queues
       THEN /\ wpc' = [wpc EXCEPT ![id] = "done"]
            /\ UNCHANGED <<upload_meta, upload_queues, emitted, wi>>
       ELSE LET total == Len(all_files(id))
            IN /\ upload_meta' = (id :> [total |-> total, current |-> 0,
                                         team |-> sub[id].team]) @@ upload_meta
               /\ put(id, json_event("info", <<total, "files to upload.">>))
               /\ wi' = [wi EXCEPT ![id] = 1]
               /\ wpc' = [wpc EXCEPT ![id] = "loop"]
    /\ UNCHANGED <<session, upload_state, state_file, req, nextId, sub,
                   taken, conn, launched, gh>>

gh_path(id, i) == gh_path_of(sub[id].team,
                             safe_relpath(all_files(id)[i], temp_dir(sub[id].team, id)))

\* variant of WorkerUploadStart: the counter is advanced when the file is
\* started, before its outcome is known
WorkerUploadStart_SetsCurrent(id) ==
    /\ wpc[id] = "loop"
    /\ wi[id] <= upload_meta[id].total
    /\ put(id, json_event("upload_start",
                       [file |-> gh_path(id, wi[id]), index |-> wi[id],
                        total |-> upload_meta[id].total]))
    /\ upload_meta' = [upload_meta EXCEPT ![id].current = wi[id]]
    /\ wpc' = [wpc EXCEPT ![id] = "upload"]
    /\ UNCHANGED <<session, upload_state, state_file, req, nextId, sub,
                   wi, taken, conn, launched, gh>>

\* lines 90-94: next file of the loop, upload_start
WorkerUploadStart(id) ==
    /\ wpc[id] = "loop"
    /\ wi[id] <= upload_meta[id].total
    /\ put(id, json_event("upload_start",
                       [file |-> gh_path(id, wi[id]), index |-> wi[id],
                        total |-> upload_meta[id].total]))
    /\ wpc' = [wpc EXCEPT ![id] = "upload"]
    /\ UNCHANGED <<session, upload_state, state_file, req, nextId, sub,
                   upload_meta, wi, taken, conn, launched, gh>>

\* lines 95-103: github_upload returned; outcome event; current = i
WorkerUpload(id, get_status, put_status) ==
    /\ wpc[id] = "upload"
    /\ LET r == github_upload(get_status, put_status)
           f == gh_path(id, wi[id])
       IN IF r.ok
          THEN put(id, json_event("upload_done", [file |-> f, status |-> r.status]))
          ELSE put(id, json_event("upload_error",
                       [file |-> f, status |-> r.status, response |-> r.resp]))
    /\ upload_meta' = [upload_meta EXCEPT ![id].current = wi[id]]
    /\ wi' = [wi EXCEPT ![id] = @ + 1]
    /\ wpc' = [wpc EXCEPT ![id] = "loop"]
    /\ UNCHANGED <<session, upload_state, state_file, req, nextId, sub,
                   taken, conn, launched, gh>>

\* variant of WorkerRaise: the loop is not inside try/finally, the exception
\* ends the thread
WorkerRaise_Escape(id) ==
    /\ wpc[id] = "upload"
    /\ wpc' = [wpc EXCEPT ![id] = "done"]
    /\ UNCHANGED <<session, upload_state, state_file, req, nextId, sub,
                   upload_queues, upload_meta, wi, emitted, taken, conn, launched,
                   gh>>

\* line 95: github_upload raised (open() failed, requests raised, the read's
\* JSON had no "sha"); nothing catches it, control goes to the finally block
WorkerRaise(id) ==
    /\ wpc[id] = "upload"
    /\ wpc' = [wpc EXCEPT ![id] = "finally"]
    /\ UNCHANGED <<session, upload_state, state_file, req, nextId, sub,
                   upload_queues, upload_meta, wi, emitted, taken, conn, launched,
                   gh>>

\* line 105: the loop is exhausted, finished
WorkerFinished(id) ==
    /\ wpc[id] = "loop"
    /\ wi[id] > upload_meta[id].total
    /\ put(id, json_event("finished", "All uploads completed."))
    /\ wpc' = [wpc EXCEPT ![id] = "finally"]
    /\ UNCHANGED <<session, upload_state, state_file, req, nextId, sub,
                   upload_meta, wi, taken, conn, launched, gh>>

\* variant of WorkerCleanup: the finally block goes to closed without
\* calling rmtree
WorkerCleanup_Skip(id, removed) ==
    /\ wpc[id] = "finally"
    /\ wpc' = [wpc EXCEPT ![id] = "close"]
    /\ UNCHANGED <<session, upload_state, state_file, req, nextId, sub,
                   upload_queues, upload_meta, wi, emitted, taken, conn, launched,
                   gh>>

\* lines 107-109: sleep, shutil.rmtree(temp_dir, ignore_errors=True);
\* removed says whether the tree could be deleted, errors are swallowed
WorkerCleanup(id, removed) ==
    /\ wpc[id] = "finally"
    /\ sub' = [sub EXCEPT ![id].dir = ~removed,
                          ![id].rm = IF removed THEN "ok" ELSE "failed"]
    /\ wpc' = [wpc EXCEPT ![id] = "close"]
    /\ UNCHANGED <<session, upload_state, state_file, req, nextId,
                   upload_queues, upload_meta, wi, emitted, taken, conn, launched,
                   gh>>

\* variant of WorkerClose: finished is put after closed
WorkerClose_ThenFinished(id) ==
    /\ wpc[id] = "close"
    /\ upload_queues' = [upload_queues EXCEPT ![id] =
            @ \o <<json_event("closed", "Upload thread ended."),
                   json_event("finished", "All uploads completed.")>>]
    /\ emitted' = [emitted EXCEPT ![id] =
            @ \o <<json_event("closed", "Upload thread ended."),
                   json_event("finished", "All uploads completed.")>>]
    /\ wpc' = [wpc EXCEPT ![id] = "done"]
    /\ UNCHANGED <<session, upload_state, state_file, req, nextId, sub,
                   upload_meta, wi, taken, conn, launched, gh>>

\* variant of WorkerClose: a worker none of whose files was uploaded gives
\* the team its submission back
WorkerClose_Unlock(id) ==
    /\ wpc[id] = "close"
    /\ put(id, json_event("closed", "Upload thread ended."))
    /\ wpc' = [wpc EXCEPT ![id] = "done"]
    /\ IF "upload_done" \in Kinds(emitted[id])
       THEN UNCHANGED <<upload_state, state_file>>
       ELSE /\ upload_state' = [upload_state EXCEPT ![sub[id].team] = FALSE]
            /\ state_file' = upload_state'
    /\ UNCHANGED <<session, req, nextId, sub, upload_meta, wi, taken, conn,
                   launched, gh>>

\* line 110: closed, the thread ends
WorkerClose(id) ==
    /\ wpc[id] = "close"
    /\ put(id, json_event("closed", "Upload thread ended."))
    /\ wpc' = [wpc EXCEPT ![id] = "done"]
    /\ UNCHANGED <<session, upload_state, state_file, req, nextId, sub,
                   upload_meta, wi, taken, conn, launched, gh>>

\* ------------------------------------------------------------ events
\* variant of EventsRequest: no membership test, every request streams
EventsRequest_NoCheck(c, id) ==
    /\ conn[c].state = "idle"
    /\ Load < MaxLoad
    /\ conn' = [conn EXCEPT ![c] = [state |-> "streaming", id |-> id]]
    /\ UNCHANGED <<session, upload_state, state_file, req, nextId, sub,
                   upload_queues, upload_meta, wpc, wi, emitted, taken, launched,
                   gh>>

\* variant of EventsRequest: the channel keeps nothing for a late reader, a
\* stream starts from an empty queue
EventsRequest_FreshQueue(c, id) ==
    /\ conn[c].state = "idle"
    /\ Load < MaxLoad
    /\ conn' = [conn EXCEPT ![c] =
                  [state |-> IF id \notin DOMAIN upload_queues
                             THEN "notfound" ELSE "streaming",
                   id |-> id]]
    /\ upload_queues' = [k \in DOMAIN upload_queues |->
                            IF k = id THEN <<>> ELSE upload_queues[k]]
    /\ UNCHANGED <<session, upload_state, state_file, req, nextId, sub,
                   upload_meta, wpc, wi, emitted, taken, launched, gh>>

\* lines 180-185: 404 for an id that is not in the registry
EventsRequest(c, id) ==
    /\ conn[c].state = "idle"
    /\ Load < MaxLoad
    /\ conn' = [conn EXCEPT ![c] =
                  [state |-> IF id \notin DOMAIN upload_queues
                             THEN "notfound" ELSE "streaming",
                   id |-> id]]
    /\ UNCHANGED <<session, upload_state, state_file, req, nextId, sub,
                   upload_queues, upload_meta, wpc, wi, emitted, taken, launched,
                   gh>>

\* variant of StreamGet: the loop does not break on closed
StreamGet_NoBreak(c) ==
    /\ conn[c].state = "streaming"
    /\ conn[c].id \in DOMAIN upload_queues
    /\ upload_queues[conn[c].id] # <<>>
    /\ LET id == conn[c].id
           ev == Head(upload_queues[id])
       IN /\ upload_queues' = [upload_queues EXCEPT ![id] = Tail(@)]
          /\ taken' = [taken EXCEPT ![id] = Append(@, [conn |-> c, ev |-> ev])]
    /\ UNCHANGED <<session, upload_state, state_file, req, nextId, sub,
                   upload_meta, wpc, wi, emitted, conn, launched, gh>>

\* variant of StreamGet: the channel hands out the newest event first
StreamGet_Lifo(c) ==
    /\ conn[c].state = "streaming"
    /\ conn[c].id \in DOMAIN upload_queues
    /\ upload_queues[conn[c].id] # <<>>
    /\ LET id == conn[c].id
           ev == Last(upload_queues[id])
       IN /\ upload_queues' = [upload_queues EXCEPT ![id] =
                                  SubSeq(@, 1, Len(@) - 1)]
          /\ taken' = [taken EXCEPT ![id] = Append(@, [conn |-> c, ev |-> ev])]
          /\ conn' = [conn EXCEPT ![c].state =
                        IF ev[1] = "closed" THEN "done" ELSE "streaming"]
    /\ UNCHANGED <<session, upload_state, state_file, req, nextId, sub,
                   upload_meta, wpc, wi, emitted, launched, gh>>

\* variant of StreamGet: a stream that takes closed puts it back for the
\* other streams of the id before it terminates
StreamGet_Requeue(c) ==
    /\ conn[c].state = "streaming"
    /\ conn[c].id \in DOMAIN upload_queues
    /\ upload_queues[conn[c].id] # <<>>
    /\ LET id == conn[c].id
           ev == Head(upload_queues[id])
       IN /\ upload_queues' = [upload_queues EXCEPT ![id] =
                IF ev[1] = "closed" THEN Append(Tail(@), ev) ELSE Tail(@)]
          /\ taken' = [taken EXCEPT ![id] = Append(@, [conn |-> c, ev |-> ev])]
          /\ conn' = [conn EXCEPT ![c].state =
                        IF ev[1] = "closed" THEN "done" ELSE "streaming"]
    /\ UNCHANGED <<session, upload_state, state_file, req, nextId, sub,
                   upload_meta, wpc, wi, emitted, launched, gh>>

\* variant of StreamGet: the stream that takes closed removes the channel
\* from the registry
StreamGet_Teardown(c) ==
    /\ conn[c].state = "streaming"
    /\ conn[c].id \in DOMAIN upload_queues
    /\ upload_queues[conn[c].id] # <<>>
    /\ LET id == conn[c].id
           ev == Head(upload_queues[id])
       IN /\ upload_queues' =
                IF ev[1] = "closed"
                THEN [k \in DOMAIN upload_queues \ {id} |-> upload_queues[k]]
                ELSE [upload_queues EXCEPT ![id] = Tail(@)]
          /\ taken' = [taken EXCEPT ![id] = Append(@, [conn |-> c, ev |-> ev])]
          /\ conn' = [conn EXCEPT ![c].state =
                        IF ev[1] = "closed" THEN "done" ELSE "streaming"]
    /\ UNCHANGED <<session, upload_state, state_file, req, nextId, sub,
                   upload_meta, wpc, wi, emitted, launched, gh>>

\* lines 187-192: one turn of stream(): q.get(), yield, break on closed
StreamGet(c) ==
    /\ conn[c].state = "streaming"
    /\ conn[c].id \in DOMAIN upload_queues
    /\ upload_queues[conn[c].id] # <<>>
    /\ LET id == conn[c].id
           ev == Head(upload_queues[id])
       IN /\ upload_queues' = [upload_queues EXCEPT ![id] = Tail(@)]
          /\ taken' = [taken EXCEPT ![id] = Append(@, [conn |-> c, ev |-> ev])]
          /\ conn' = [conn EXCEPT ![c].state =
                        IF ev[1] = "closed" THEN "done" ELSE "streaming"]
    /\ UNCHANGED <<session, upload_state, state_file, req, nextId, sub,
                   upload_meta, wpc, wi, emitted, launched, gh>>

\* ------------------------------------------------------------ Next
Next ==
    \/ \E s \in TeamSessions, u \in Teams, ok \in BOOLEAN : Verify(s, u, ok)
    \/ \E ok \in BOOLEAN : Verify(AdminSession, AdminTeam, ok)
    \/ \E s \in Sessions, n \in 0..MaxFiles, bad \in BOOLEAN : UploadExtract(s, n, bad)
    \/ \E s \in Sessions : UploadLock(s)
    \/ \E s \in Sessions : UploadLaunch(s)
    \/ \E s \in Sessions, t \in Teams : ResetTeam(s, t)
    \/ \E id \in Ids : WorkerStart(id)
    \/ \E id \in Ids : WorkerUploadStart(id)
    \/ \E id \in Ids, g \in GetStatuses, p \in PutStatuses : WorkerUpload(id, g, p)
    \/ \E id \in Ids : WorkerRaise(id)
    \/ \E id \in Ids : WorkerFinished(id)
    \/ \E id \in Ids, removed \in BOOLEAN : WorkerCleanup(id, removed)
    \/ \E id \in Ids : WorkerClose(id)
    \/ \E c \in Conns, id \in ReqIds : EventsRequest(c, id)
    \/ \E c \in Conns : StreamGet(c)

Spec == Init /\ [][Next]_vars

\* Fair scheduling: a started thread and a request being served keep running,
\* and a stream whose queue holds an event is served.
WorkerStep(id) ==
    \/ WorkerStart(id)
    \/ WorkerUploadStart(id)
    \/ \E g \in GetStatuses, p \in PutStatuses : WorkerUpload(id, g, p)
    \/ WorkerFinished(id)
    \/ \E removed \in BOOLEAN : WorkerCleanup(id, removed)
    \/ WorkerClose(id)

\* a step of a started worker thread, of an upload request being served or
\* of a stream with an event waiting
Progress ==
    \/ \E id \in Ids : WorkerStep(id)
    \/ \E s \in TeamSessions : UploadLock(s) \/ UploadLaunch(s)
    \/ \E c \in Conns : StreamGet(c)

FairSpec == Spec /\ WF_vars(Progress)

\* ------------------------------------------------------------ github_upload
\* github_upload called directly, one call after the other, on a repository
\* that others may write to as well.  Under Spec the worker's calls draw the
\* two statuses as inputs; here the repository answers, or fails to.
GetAnswers == {"store", "error", "nosha"}
PutAnswers == {"store", "error"}

\* the portal is at rest, the repository holds some of the paths already
UpsertInit ==
    /\ session = [s \in Sessions |-> [team |-> NoTeam, admin |-> FALSE]]
    /\ upload_state \in [Teams -> BOOLEAN]
    /\ state_file = upload_state
    /\ req = [s \in Sessions |-> NoReq]
    /\ nextId = 0
    /\ sub = [i \in Ids |-> [team |-> NoTeam, nfiles |-> 0, dir |-> FALSE,
                             extract |-> "none", lockSet |-> FALSE, rm |-> "none"]]
    /\ upload_queues = <<>>
    /\ upload_meta = <<>>
    /\ wpc = [i \in Ids |-> "idle"]
    /\ wi = [i \in Ids |-> 0]
    /\ emitted = [i \in Ids |-> <<>>]
    /\ taken = [i \in Ids |-> <<>>]
    /\ conn = [c \in Conns |-> [state |-> "idle", id |-> UnknownId]]
    /\ launched = [t \in Teams |-> 0]
    /\ \E present \in SUBSET RemotePaths :
          gh = GhIdle([p \in RemotePaths |->
                          IF p \in present THEN [sha |-> 1, content |-> "v0"]
                          ELSE NoObject], 1)

\* lines 44-49: github_upload(local_path, gh_path) is entered, the file read
GhCall(path, content) ==
    /\ gh.pc = "idle"
    /\ Len(gh.log) < MaxCalls
    /\ gh' = [gh EXCEPT !.pc = "get",
                        !.call = [NoCall EXCEPT !.path = path,
                                                !.content = content,
                                                !.ext0 = Len(gh.extlog),
                                                !.before = gh.store[path].sha]]
    /\ UNCHANGED webvars

\* the result of a call, as the log keeps it
GhResult(c, sent, put_status, r, raised, after) ==
    [path |-> c.path, content |-> c.content, get_status |-> c.get_status,
     sha |-> sent, put_status |-> put_status, ok |-> r.ok,
     status |-> r.status, raised |-> raised, reads |-> c.reads,
     writes |-> c.writes, before |-> c.before, after |-> after,
     ext0 |-> c.ext0, ext1 |-> Len(gh.extlog)]

\* lines 50-51: requests.get and the sha of its answer.  The repository
\* answers for the path ("store"), or the API fails with 500 ("error"), or
\* it answers 200 with a body that has no "sha" key, as for a directory
\* ("nosha"): line 51 raises and the call ends without a write.
GhGet(answer) ==
    /\ gh.pc = "get"
    /\ LET a == IF answer = "store" THEN RemoteGet(gh.store, gh.call.path)
                ELSE IF answer = "error" THEN [status |-> 500, sha |-> NoSha]
                ELSE [status |-> 200, sha |-> NoSha]
           c == [gh.call EXCEPT !.get_status = a.status, !.sha = a.sha,
                                !.reads = @ + 1]
       IN IF answer = "nosha"
          THEN gh' = [gh EXCEPT
                  !.pc = "idle", !.call = NoCall,
                  !.log = Append(@, GhResult(c, NoSha, 0,
                              [ok |-> FALSE, status |-> 0], TRUE,
                              gh.store[c.path].sha))]
          ELSE gh' = [gh EXCEPT !.pc = "put", !.call = c]
    /\ UNCHANGED webvars

\* lines 52-57: the payload, requests.put and the returned triple.  The
\* repository treats the write as RemotePut says, or the API fails with 500.
GhPut(answer) ==
    /\ gh.pc = "put"
    /\ LET c == [gh.call EXCEPT !.writes = @ + 1]
           sent == payload_sha(c.get_status, c.sha)
           put_status == IF answer = "store"
                         THEN RemotePut(gh.store, c.path, sent) ELSE 500
           r == github_upload(c.get_status, put_status)
           written == answer = "store" /\ put_status \in {200, 201}
           after == IF written THEN gh.rev + 1 ELSE gh.store[c.path].sha
       IN gh' = [gh EXCEPT
               !.pc = "idle", !.call = NoCall,
               !.rev = IF written THEN @ + 1 ELSE @,
               !.store = IF written
                         THEN [@ EXCEPT ![c.path] =
                                  [sha |-> after, content |-> c.content]]
                         ELSE @,
               !.log = Append(@, GhResult(c, sent, put_status, r, FALSE, after))]
    /\ UNCHANGED webvars

\* somebody else commits to the path, or deletes it
GhExternal(path, delete) ==
    /\ Len(gh.extlog) < MaxExternal
    /\ gh' = [gh EXCEPT
            !.rev = IF delete THEN @ ELSE @ + 1,
            !.store = [@ EXCEPT ![path] =
                         IF delete THEN NoObject
                         ELSE [sha |-> gh.rev + 1, content |-> "other"]],
            !.extlog = Append(@, path)]
    /\ UNCHANGED webvars

UpsertNext ==
    \/ \E path \in RemotePaths, content \in Contents : GhCall(path, content)
    \/ \E answer \in GetAnswers : GhGet(answer)
    \/ \E answer \in PutAnswers : GhPut(answer)
    \/ \E path \in RemotePaths, delete \in BOOLEAN : GhExternal(path, delete)

UpsertSpec == UpsertInit /\ [][UpsertNext]_vars

\* ================================================================ claims
IsPrefix(a, b) == Len(a) <= Len(b) /\ \A k \in 1..Len(a) : a[k] = b[k]

\* what connection c has yielded to its client so far
yielded(c) == SelectEv(taken[conn[c].id], c)

\* connections that were accepted as streams of upload id
StreamsOf(id) == {c \in Conns : conn[c].id = id /\ conn[c].state \in {"streaming", "done"}}

Outcome == {"upload_done", "upload_error"}

\* C1: a finished worker has emitted info, then for each of the N staged
\* files in walk order upload_start followed by upload_done or upload_error
\* for that file, then one finished, then one closed.
C1_EventShape ==
    \A id \in Ids : wpc[id] = "done" =>
        LET e == emitted[id]
            N == sub[id].nfiles
        IN /\ Len(e) = 2 * N + 3
           /\ e[1][1] = "info"
           /\ \A k \in 1..N :
                /\ e[2 * k][1] = "upload_start"
                /\ e[2 * k][2].file = gh_path(id, k)
                /\ e[2 * k + 1][1] \in Outcome
                /\ e[2 * k + 1][2].file = gh_path(id, k)
           /\ e[2 * N + 2][1] = "finished"
           /\ e[2 * N + 3][1] = "closed"

\* C2: on every channel closed occurs at most once and only as the last
\* event put, and a worker that has ended has put it.
C2_ClosedLast ==
    \A id \in Ids :
        LET e == emitted[id]
        IN /\ \A k \in 1..Len(e) : e[k][1] = "closed" => k = Len(e)
           /\ wpc[id] = "done" => (e # <<>> /\ Last(e)[1] = "closed")

\* a worker that left the loop through an exception has ended with closed
C2_Witness ==
    \E id \in Ids :
        /\ wpc[id] = "done"
        /\ "upload_start" \in Kinds(emitted[id])
        /\ "finished" \notin Kinds(emitted[id])
        /\ Last(emitted[id])[1] = "closed"

\* file k of upload id was handed to github_upload
Attempted(id, k) ==
    \E j \in 1..Len(emitted[id]) :
        emitted[id][j][1] = "upload_start" /\ emitted[id][j][2].index = k

\* github_upload did not succeed for file k: it reported failure or raised
Failed(id, k) ==
    /\ Attempted(id, k)
    /\ ~ \E j \in 1..Len(emitted[id]) :
            /\ emitted[id][j][1] = "upload_done"
            /\ emitted[id][j][2].file = gh_path(id, k)

\* C3: when the upsert of a file fails, a finished worker has still attempted
\* every later file and has emitted finished and then closed.
C3_FailureDoesNotAbort ==
    \A id \in Ids : wpc[id] = "done" =>
        \A k \in 1..sub[id].nfiles : Failed(id, k) =>
            LET e == emitted[id]
            IN /\ \A j \in (k + 1)..sub[id].nfiles : Attempted(id, j)
               /\ Len(e) >= 2
               /\ e[Len(e) - 1][1] = "finished"
               /\ e[Len(e)][1] = "closed"

\* C4: between two administrative resets at most one worker is launched for
\* an owner.
C4_OneWorkerPerReset == \A t \in Teams : launched[t] <= 1

\* C5 as stated: every stream accepted for a registered id eventually
\* delivers closed and terminates.
C5_EveryStreamCloses ==
    \A c \in Conns : (conn[c].state = "streaming") ~> (conn[c].state = "done")

\* C5 amended: once a stream is open on a registered id, closed is eventually
\* delivered to one of the streams of that id, which then terminates (the
\* stream itself when it stays the only one of its id).
C5_SomeStreamCloses ==
    \A id \in Ids :
        (\E c \in Conns : conn[c].state = "streaming" /\ conn[c].id = id)
           ~> (\E c \in Conns : conn[c].state = "done" /\ conn[c].id = id)

\* a lone stream has terminated on closed although an upload had failed
C5_Witness ==
    \E c \in Conns :
        /\ conn[c].state = "done"
        /\ StreamsOf(conn[c].id) = {c}
        /\ "upload_error" \in Kinds(yielded(c))
        /\ Last(yielded(c))[1] = "closed"

\* C6 as stated: what a stream has yielded is a prefix of what the worker
\* has put on its channel.
C6_StreamIsPrefix ==
    \A c \in Conns : conn[c].state \in {"streaming", "done"} =>
        IsPrefix(yielded(c), emitted[conn[c].id])

\* C6 amended: the events taken off a channel, over all its streams, are in
\* order a prefix of what the worker has put; what the only stream of a
\* channel has yielded is that prefix.
C6_ChannelIsPrefix ==
    /\ \A id \in Ids : IsPrefix(EvSeq(taken[id]), emitted[id])
    /\ \A c \in Conns : StreamsOf(conn[c].id) = {c} =>
          IsPrefix(yielded(c), emitted[conn[c].id])

\* a lone stream has yielded several events while the worker is still running
C6_Witness ==
    \E c \in Conns :
        /\ StreamsOf(conn[c].id) = {c}
        /\ Len(yielded(c)) >= 3
        /\ wpc[conn[c].id] # "done"
        /\ upload_queues[conn[c].id] # <<>>

\* C7: a worker has started only for a submission whose intake has already
\* set and saved the owner's lock.
C7_LockBeforeWorker == \A id \in Ids : wpc[id] # "idle" => sub[id].lockSet

\* a worker has been started and has not yet run
C7_Witness == \E id \in Ids : wpc[id] = "start" /\ sub[id].lockSet

\* C8 as stated: once closed has been put, the staging directory is gone.
C8_DirGoneAtClosed ==
    \A id \in Ids : "closed" \in Kinds(emitted[id]) => ~sub[id].dir

\* C8 amended: once closed has been put, rmtree has run on the staging
\* directory, and the directory is gone unless rmtree could not delete it.
C8_CleanupBeforeClosed ==
    \A id \in Ids : "closed" \in Kinds(emitted[id]) =>
        /\ sub[id].rm # "none"
        /\ sub[id].rm = "ok" => ~sub[id].dir

\* closed has been put after a deletion that worked
C8_Witness ==
    \E id \in Ids :
        "closed" \in Kinds(emitted[id]) /\ sub[id].rm = "ok" /\ ~sub[id].dir

\* C9: a stream request whose id is not in the registry has been answered
\* not found and is not streaming.
C9_UnknownIdNotFound ==
    \A c \in Conns :
        (conn[c].state # "idle" /\ conn[c].id \notin DOMAIN upload_queues)
            => conn[c].state = "notfound"

\* with another upload registered, a request for an id no intake registered
\* has been answered not found
C9_Witness ==
    \E c \in Conns :
        /\ conn[c].state = "notfound"
        /\ DOMAIN upload_queues # {}
        /\ \/ conn[c].id = UnknownId
           \/ sub[conn[c].id].extract = "failed"

\* C10: a failed extraction leaves nothing behind: no channel, no lock set by
\* that intake, no worker, no staging directory.
C10_ExtractFailsAtomically ==
    \A id \in Ids : sub[id].extract = "failed" =>
        /\ id \notin DOMAIN upload_queues
        /\ ~sub[id].lockSet
        /\ wpc[id] = "idle"
        /\ ~sub[id].dir

\* file k of upload id has had its outcome event put
Processed(id, k) ==
    \E j \in 1..Len(emitted[id]) :
        emitted[id][j][1] \in Outcome /\ emitted[id][j][2].file = gh_path(id, k)

\* C11: a worker whose channel no stream reads is never blocked (it always
\* has a next step until it has ended), and when it has ended it has
\* processed every staged file, has run the deletion of the staging
\* directory and has put closed last.
C11_WorkerNeedsNoReader ==
    \A id \in Ids : StreamsOf(id) = {} =>
        /\ wpc[id] \notin {"idle", "done"} => ENABLED WorkerStep(id)
        /\ wpc[id] = "done" =>
              /\ \A k \in 1..sub[id].nfiles : Processed(id, k)
              /\ sub[id].rm # "none"
              /\ emitted[id] # <<>> /\ Last(emitted[id])[1] = "closed"

\* C13: a launched worker ends on every path, the exception path included,
\* only after rmtree has run on its staging directory and with closed put
\* after that: a worker about to put closed or ended has run rmtree, and a
\* worker has ended exactly when its channel carries closed.
C13_CleanupOnEveryExit ==
    \A id \in Ids :
        /\ wpc[id] \in {"close", "done"} => sub[id].rm # "none"
        /\ wpc[id] = "close" => "closed" \notin Kinds(emitted[id])
        /\ wpc[id] = "done" <=>
              (emitted[id] # <<>> /\ Last(emitted[id])[1] = "closed")

\* a worker that left the loop through an exception has ended after an
\* rmtree that could not delete the directory, and has put closed
C13_Witness ==
    \E id \in Ids :
        /\ wpc[id] = "done"
        /\ "upload_start" \in Kinds(emitted[id])
        /\ "finished" \notin Kinds(emitted[id])
        /\ sub[id].rm = "failed"
        /\ Last(emitted[id])[1] = "closed"

\* positions in the channel of upload id at which upload_start was put
StartsAt(id) == {j \in 1..Len(emitted[id]) : emitted[id][j][1] = "upload_start"}

\* C14: the k-th upload_start of a channel carries index k, the file at
\* position k of the file list and total N; an ended worker has put the
\* indices 1..N; and whatever the worker puts right after an upload_start is
\* the upload_done or upload_error of the same file.
C14_StartThenOutcome ==
    \A id \in Ids :
        LET e == emitted[id]
            N == sub[id].nfiles
        IN /\ \A j \in StartsAt(id) :
                LET k == Cardinality({h \in StartsAt(id) : h <= j})
                IN /\ e[j][2].index = k
                   /\ e[j][2].total = N
                   /\ e[j][2].file = gh_path(id, k)
                   /\ j < Len(e) =>
                        /\ e[j + 1][1] \in Outcome
                        /\ e[j + 1][2].file = e[j][2].file
           /\ wpc[id] = "done" => Cardinality(StartsAt(id)) = N

\* C15: the counters of every upload satisfy 0 <= current <= total, the
\* files 1..current have had their outcome event put, current = total once
\* finished has been put, and no step removes the counters of an upload,
\* changes total or lowers current.
C15_ProgressCounters ==
    /\ [](\A id \in DOMAIN upload_meta :
            /\ 0 <= upload_meta[id].current
            /\ upload_meta[id].current <= upload_meta[id].total
            /\ \A k \in 1..upload_meta[id].current : Processed(id, k)
            /\ "finished" \in Kinds(emitted[id]) =>
                  upload_meta[id].current = upload_meta[id].total)
    /\ [][\A id \in DOMAIN upload_meta :
            /\ id \in DOMAIN upload_meta'
            /\ upload_meta'[id].total = upload_meta[id].total
            /\ upload_meta'[id].current >= upload_meta[id].current]_vars

\* the first of two files has its outcome and is counted, the second has
\* been started and is not counted yet
C15_Witness ==
    \E id \in DOMAIN upload_meta :
        /\ upload_meta[id].total = 2
        /\ upload_meta[id].current = 1
        /\ wpc[id] = "upload"
        /\ Cardinality(StartsAt(id)) = 2

\* C17: a step changes the lock of a team, in memory or in the state file,
\* only if it is the lock step of an upload request of that team, which
\* sets it, or a reset by an admin session, which clears it; no worker step
\* and no stream step changes a lock.
C17_LockFrame ==
    [][\A t \in Teams :
          (upload_state'[t] # upload_state[t] \/ state_file'[t] # state_file[t]) =>
             \/ /\ upload_state'[t] /\ state_file'[t]
                /\ \E s \in Sessions :
                      /\ req[s].pc = "lock" /\ req[s].team = t
                      /\ req'[s].pc = "launch"
                /\ wpc' = wpc /\ conn' = conn
             \/ /\ ~upload_state'[t] /\ ~state_file'[t]
                /\ \E s \in Sessions : session[s].admin /\ req[s].pc = "none"
                /\ wpc' = wpc /\ conn' = conn /\ req' = req]_vars

\* a worker all of whose uploads failed has ended, its stream has
\* terminated, and the team is still locked
C17_Witness ==
    \E id \in Ids :
        /\ wpc[id] = "done"
        /\ sub[id].nfiles >= 1
        /\ "upload_done" \notin Kinds(emitted[id])
        /\ \E c \in Conns : conn[c].id = id /\ conn[c].state = "done"
        /\ upload_state[sub[id].team] /\ state_file[sub[id].team]

\* C18: the channel of an upload is registered before its worker runs, and
\* for a connection that is the only stream of its upload, whenever it
\* connected, the events it has yielded followed by the events waiting in
\* the queue are exactly the events the worker has put; when it has
\* terminated it has yielded all of them, info first and closed last.
C18_SingleConsumerGetsAll ==
    /\ \A id \in Ids : wpc[id] # "idle" => id \in DOMAIN upload_queues
    /\ \A c \in Conns : StreamsOf(conn[c].id) = {c} =>
          LET id == conn[c].id
          IN /\ yielded(c) \o upload_queues[id] = emitted[id]
             /\ conn[c].state = "done" =>
                   /\ yielded(c) = emitted[id]
                   /\ yielded(c)[1][1] = "info"
                   /\ Last(yielded(c))[1] = "closed"

\* the only stream of an upload was opened after the worker had ended and
\* has taken nothing yet: every event, info to closed, waits in the queue
C18_Witness ==
    \E c \in Conns :
        LET id == conn[c].id
        IN /\ conn[c].state = "streaming"
           /\ StreamsOf(id) = {c}
           /\ wpc[id] = "done"
           /\ taken[id] = <<>>
           /\ Len(upload_queues[id]) >= 5
           /\ upload_queues[id][1][1] = "info"
           /\ Last(upload_queues[id])[1] = "closed"

\* C19: on every registered channel, whatever the number of streams, the
\* events taken so far, each by one connection, followed by the events still
\* waiting are exactly the events the worker has put (none twice, none
\* lost); closed has been taken at most once; and at most one connection of
\* the id has terminated, the one that took closed.
C19_EachEventToOneStream ==
    \A id \in DOMAIN upload_queues :
        /\ EvSeq(taken[id]) \o upload_queues[id] = emitted[id]
        /\ \A k \in 1..Len(taken[id]) : taken[id][k].conn \in StreamsOf(id)
        /\ Cardinality({k \in 1..Len(taken[id]) :
                           taken[id][k].ev[1] = "closed"}) <= 1
        /\ Cardinality({c \in Conns : conn[c].id = id /\ conn[c].state = "done"}) <= 1
        /\ \A c \in Conns : (conn[c].id = id /\ conn[c].state = "done") =>
               Last(taken[id]) = [conn |-> c, ev |-> Last(emitted[id])]

\* two connections have shared the events of one upload: each has yielded
\* some, one has taken closed and terminated, the other is still open
C19_Witness ==
    \E c, d \in Conns :
        /\ c # d
        /\ conn[c].id = conn[d].id
        /\ conn[c].state = "done" /\ conn[d].state = "streaming"
        /\ yielded(c) # <<>> /\ yielded(d) # <<>>
        /\ Len(yielded(c)) + Len(yielded(d)) = Len(emitted[conn[c].id])

\* C20: no step removes an id from the registry or replaces its channel (a
\* step leaves the queue of a registered id as it is, appends one event to
\* it or takes its head), and no step answers not found to a stream request
\* for a registered id.
C20_RegistryOnlyGrows ==
    [][/\ \A id \in DOMAIN upload_queues :
             /\ id \in DOMAIN upload_queues'
             /\ LET q == upload_queues[id]
                    r == upload_queues'[id]
                IN \/ r = q
                   \/ Len(r) = Len(q) + 1 /\ SubSeq(r, 1, Len(q)) = q
                   \/ q # <<>> /\ r = Tail(q)
       /\ \A c \in Conns :
             (conn[c].state = "idle" /\ conn'[c].state # "idle"
                 /\ conn'[c].id \in DOMAIN upload_queues)
                => conn'[c].state = "streaming"]_vars

\* one connection has consumed everything up to closed and terminated, and
\* the id is still registered: another request for it has been accepted
C20_Witness ==
    \E c, d \in Conns :
        LET id == conn[c].id
        IN /\ conn[c].state = "done"
           /\ yielded(c) = emitted[id]
           /\ id \in DOMAIN upload_queues /\ upload_queues[id] = <<>>
           /\ conn[d].id = id /\ conn[d].state = "streaming"

\* nobody else wrote to path from the start of call k to the end of call k+1
NoExternalBetween(k) ==
    \A j \in (gh.log[k].ext0 + 1)..gh.log[k + 1].ext1 :
        gh.extlog[j] # gh.log[k].path

\* calls k and k+1 were answered by the repository itself
Answered(k) ==
    /\ ~gh.log[k].raised
    /\ gh.log[k].get_status \in {200, 404}
    /\ gh.log[k].put_status # 500

\* calls k and k+1 upload the same content to the same path, the repository
\* answers both and nobody else writes to the path meanwhile
SameUploadTwice(k) ==
    /\ k + 1 <= Len(gh.log)
    /\ gh.log[k].path = gh.log[k + 1].path
    /\ gh.log[k].content = gh.log[k + 1].content
    /\ Answered(k) /\ Answered(k + 1)
    /\ NoExternalBetween(k)

\* C12: when github_upload is called twice in a row with the same content
\* for the same path and nobody else writes to the path meanwhile, both calls
\* report success; the second write carries the sha the first write
\* produced and is an update (200); and when the path was absent before the
\* first call, the first write carries no sha and creates the object (201).
C12_UpsertTwice ==
    \A k \in 1..Len(gh.log) : SameUploadTwice(k) =>
        LET a == gh.log[k]
            b == gh.log[k + 1]
        IN /\ a.ok /\ b.ok
           /\ b.sha # NoSha /\ b.sha = a.after
           /\ b.put_status = 200
           /\ a.before = NoSha => (a.sha = NoSha /\ a.put_status = 201)

\* the same content went twice to a path that was absent: created, then
\* updated with the sha of the creation
C12_Witness ==
    \E k \in 1..Len(gh.log) :
        /\ SameUploadTwice(k)
        /\ gh.log[k].before = NoSha
        /\ gh.log[k].put_status = 201
        /\ gh.log[k + 1].put_status = 200
        /\ gh.log[k + 1].sha = gh.log[k].after

\* C16: every call of github_upload has issued exactly one read and then
\* exactly one write and has returned; its write carried a sha exactly when
\* the read answered 200, and it reported success exactly when the write
\* answered 200 or 201.
C16_OneReadOneWrite ==
    \A k \in 1..Len(gh.log) :
        LET e == gh.log[k]
        IN /\ e.reads = 1 /\ e.writes = 1 /\ ~e.raised
           /\ e.sha # NoSha <=> e.get_status = 200
           /\ e.ok <=> e.put_status \in {200, 201}

====
